---- MODULE Spec2Model ----
(***************************************************************************)
(* gretl: OnlineR2CheckpointStrategy (online_r2_checkpoint_strategy.cpp)   *)
(* and the forward/reverse driver advance_and_reverse_steps                *)
(* (checkpoint.hpp), the driver being run with an OnlineR2 strategy of     *)
(* capacity storageSize.                                                   *)
(*                                                                         *)
(* Two state machines share the strategy's fields:                         *)
(*   StrategySpec  any sequence of public operations on one strategy;      *)
(*   DriverSpec    one call of advance_and_reverse_steps, one action per   *)
(*                 loop iteration.                                         *)
(*                                                                         *)
(* size_t is modelled as an unsigned integer of 30 bits (TLC's integers    *)
(* are 32 bits wide, so the 64 bits of the build do not fit); every size_t *)
(* operation that can wrap is taken modulo SizeMod.                        *)
(***************************************************************************)
EXTENDS Integers, Sequences, FiniteSets, TLC

VARIABLES
  \* OnlineR2CheckpointStrategy
  maxNumSlots_, slots_, metrics_,
  \* the capacity the strategy was constructed with, the persistent adds made
  \* so far, and the last public operation with its arguments and result
  maxStates, persistentAdds, call,
  \* advance_and_reverse_steps: arguments, locals, position, and the calls of
  \* reverse_callback and update_func made so far
  numSteps, storageSize, updateKind, x0, x, xf, i, savedCps, pc, cbLog,
  updateCalls, result

strategyVars == <<maxNumSlots_, slots_, metrics_>>
observerVars == <<maxStates, persistentAdds, call>>
driverVars == <<numSteps, storageSize, updateKind, x0, x, xf, i, savedCps, pc,
                cbLog, updateCalls, result>>
vars == <<maxNumSlots_, slots_, metrics_, maxStates, persistentAdds, call,
          numSteps, storageSize, updateKind, x0, x, xf, i, savedCps, pc, cbLog,
          updateCalls, result>>

\* ------------------------------------------------------------------ bounds
MaxStep == 2
MaxC == 2
MaxPersistent == 1
MaxStores == 2
MaxN == 4
MaxRecomputations == 12
MaxRecorded == 1
MaxSweepN == 10
MaxSweepC == 4

\* ------------------------------------------------------------------ size_t
SizeMod == 2 ^ 30
\* std::numeric_limits<size_t>::max()
SizeMax == SizeMod - 1
\* CheckpointStrategy::invalidCheckpointIndex: the maximum value of the step type
invalidCheckpointIndex == SizeMax
valid_checkpoint_index(idx) == idx # invalidCheckpointIndex
\* unsigned subtraction a - b
USub(a, b) == (a - b + SizeMod) % SizeMod
UInc(a) == (a + 1) % SizeMod
UDec(a) == (a - 1 + SizeMod) % SizeMod

\* ------------------------------------------------------------------ sequences
InsertAt(seq, idx, e) == SubSeq(seq, 1, idx - 1) \o <<e>> \o SubSeq(seq, idx, Len(seq))
RemoveAt(seq, idx) == SubSeq(seq, 1, idx - 1) \o SubSeq(seq, idx + 1, Len(seq))

\* ------------------------------------------------------------------ strategy
\* struct Slot { size_t step; bool persistent; }
Slot(step, persistent) == [step |-> step, persistent |-> persistent]

\* CheckpointMetrics{}: the three counters, value-initialised
ZeroMetrics == [stores |-> 0, evictions |-> 0, recomputations |-> 0]

\* std::lower_bound(slots_.begin(), slots_.end(), step, s.step < st): the
\* first position (1-based) whose slot is not below step, Len+1 if none.
lower_bound(slots, step) ==
  IF \E k \in 1..Len(slots) : ~(slots[k].step < step)
  THEN CHOOSE k \in 1..Len(slots) :
         /\ ~(slots[k].step < step)
         /\ \A j \in 1..(k - 1) : slots[j].step < step
  ELSE Len(slots) + 1

\* Mutant of InsertSorted: the new slot is appended, whatever its step.
InsertAtEnd(slots, newSlot) == Append(slots, newSlot)

\* slots_.insert(lower_bound(...), newSlot)
InsertSorted(slots, newSlot) == InsertAt(slots, lower_bound(slots, newSlot.step), newSlot)

\* Mutant of MergedGap: the gap is measured from the slot itself (slots_[i])
\* and not from its left neighbour (slots_[i - 1]).
MergedGapFromSelf(slots, k, newStep) ==
  LET leftStep == slots[k].step
      rightStep == IF k + 1 <= Len(slots) THEN slots[k + 1].step ELSE newStep
  IN USub(rightStep, leftStep)

\* One pass of the loop body of find_eviction_candidate for 1-based position k
\* (the code's i = k - 1); best = [idx, gap].
MergedGap(slots, k, newStep) ==
  LET leftStep == IF k > 1 THEN slots[k - 1].step ELSE 0
      rightStep == IF k + 1 <= Len(slots) THEN slots[k + 1].step ELSE newStep
  IN USub(rightStep, leftStep)

\* Mutant of BetterGap: on equal gaps the later slot replaces the incumbent.
BetterGapOrEqual(mergedGap, bestMergedGap) == mergedGap <= bestMergedGap

BetterGap(mergedGap, bestMergedGap) == mergedGap < bestMergedGap

RECURSIVE EvictionScan(_, _, _, _)
EvictionScan(slots, newStep, k, best) ==
  IF k > Len(slots) THEN best.idx
  ELSE IF slots[k].persistent THEN EvictionScan(slots, newStep, k + 1, best)
  ELSE LET mergedGap == MergedGap(slots, k, newStep)
       IN IF BetterGap(mergedGap, best.gap)
          THEN EvictionScan(slots, newStep, k + 1, [idx |-> k, gap |-> mergedGap])
          ELSE EvictionScan(slots, newStep, k + 1, best)

\* Returns a 1-based position; Len(slots) + 1 stands for the code's slots_.size()
\* (no candidate).
find_eviction_candidate(slots, newStep) ==
  EvictionScan(slots, newStep, 1, [idx |-> Len(slots) + 1, gap |-> SizeMax])

\* Mutant of HasSpace: off by one, a full strategy still counts as having space.
HasSpaceOffByOne(slots, maxNumSlots) == Len(slots) <= maxNumSlots

\* Mutant of HasSpace: the last free slot is never used.
HasSpaceTooEarly(slots, maxNumSlots) == Len(slots) + 1 < maxNumSlots

\* if (slots_.size() < maxNumSlots_)
HasSpace(slots, maxNumSlots) == Len(slots) < maxNumSlots

\* Mutant of GrantPersistent: the capacity is not raised for a persistent slot.
GrantNothing(maxNumSlots, persistent) == maxNumSlots

\* if (persistent) { maxNumSlots_++; assert(slots_.size() < maxNumSlots_); }
\* The assertion cannot fail unless maxNumSlots_ wraps (slots_.size() is at most
\* maxNumSlots_ before the increment), which needs a capacity of SIZE_MAX.
GrantPersistent(maxNumSlots, persistent) ==
  IF persistent THEN UInc(maxNumSlots) ELSE maxNumSlots

\* Mutant of EvictAndInsert: the position of the evicted slot is returned in
\* place of its step.
EvictAndInsertReturnsIndex(slots, newSlot) ==
  LET evictIdx == find_eviction_candidate(slots, newSlot.step)
  IN IF evictIdx < Len(slots) + 1
     THEN [slots |-> InsertSorted(RemoveAt(slots, evictIdx), newSlot),
           ret |-> evictIdx - 1]
     ELSE [slots |-> slots, ret |-> invalidCheckpointIndex]

\* The else branch of add: evict the candidate, then insert the new slot; with
\* no candidate nothing is inserted.  [slots, ret]
EvictAndInsert(slots, newSlot) ==
  LET evictIdx == find_eviction_candidate(slots, newSlot.step)
  IN IF evictIdx < Len(slots) + 1
     THEN [slots |-> InsertSorted(RemoveAt(slots, evictIdx), newSlot),
           ret |-> slots[evictIdx].step]
     ELSE [slots |-> slots, ret |-> invalidCheckpointIndex]

\* metrics_.stores++; if (valid_checkpoint_index(nextEraseStep)) metrics_.evictions++
CountAdd(metrics, nextEraseStep) ==
  [metrics EXCEPT !.stores = UInc(@),
                  !.evictions = IF valid_checkpoint_index(nextEraseStep)
                                THEN UInc(@) ELSE @]

\* S = [maxNumSlots_, slots_, metrics_]; the result is [S, ret].
add_checkpoint_and_get_index_to_remove(S, step, persistent) ==
  LET newSlot == Slot(step, persistent)
      maxNum == GrantPersistent(S.maxNumSlots_, persistent)
      placed == IF HasSpace(S.slots_, maxNum)
                THEN [slots |-> InsertSorted(S.slots_, newSlot),
                      ret |-> invalidCheckpointIndex]
                ELSE EvictAndInsert(S.slots_, newSlot)
  IN [S |-> [maxNumSlots_ |-> maxNum,
             slots_ |-> placed.slots,
             metrics_ |-> CountAdd(S.metrics_, placed.ret)],
      ret |-> placed.ret]

\* slots_.back().step; the caller must have checked that slots_ is not empty
last_checkpoint_step(slots) == slots[Len(slots)].step

\* The position erase_step erases: the first slot with this step that is not
\* persistent (a persistent match is skipped and the scan goes on); 0 if none.
EraseIndex(slots, stepIndex) ==
  IF \E k \in 1..Len(slots) : slots[k].step = stepIndex /\ ~slots[k].persistent
  THEN CHOOSE k \in 1..Len(slots) :
         /\ slots[k].step = stepIndex /\ ~slots[k].persistent
         /\ \A j \in 1..(k - 1) : ~(slots[j].step = stepIndex /\ ~slots[j].persistent)
  ELSE 0

\* [slots, ret]
erase_step(slots, stepIndex) ==
  LET k == EraseIndex(slots, stepIndex)
  IN IF k > 0 THEN [slots |-> RemoveAt(slots, k), ret |-> TRUE]
     ELSE [slots |-> slots, ret |-> FALSE]

contains_step(slots, stepIndex) == \E k \in 1..Len(slots) : slots[k].step = stepIndex

\* Mutant of reset: it also drops the last persistent slot.
ResetDropsAll(slots) == <<>>

\* remove_if(!persistent) + erase: the persistent slots, in order
KeepOnReset(s) == s.persistent
reset(slots) == SelectSeq(slots, KeepOnReset)

capacity(maxNumSlots) == maxNumSlots
size(slots) == Len(slots)

\* Mutant of record_recomputation: the wrong counter is raised.
RecordCountsEviction(metrics) == [metrics EXCEPT !.evictions = UInc(@)]

record_recomputation(metrics) == [metrics EXCEPT !.recomputations = UInc(@)]

\* ------------------------------------------------------------------ state type T
\* T is instantiated as a 64-bit integer type. A value is <<hi, lo>> standing
\* for hi * Radix + lo (two limbs, since 2^53 does not fit a TLC integer).
Radix == 2 ^ 27
TVal(hi, lo) == <<hi, lo>>
\* T{}: what std::map::operator[] inserts for a missing key
TDefault == TVal(0, 0)
TPlus(v, k) == LET s == v[2] + k IN TVal(v[1] + (s \div Radix), s % Radix)
THalf(v) == TVal(v[1] \div 2, ((v[1] % 2) * (Radix \div 2)) + (v[2] \div 2))
TTwice(v) == LET s == 2 * v[2] IN TVal(2 * v[1] + (s \div Radix), s % Radix)

\* A double is mant * 2^exp with mant < 2^53 (mant in limbs).
\* T -> double (double xf = x): exact below 2^53; in [2^53, 2^54) the spacing
\* is 2 and an odd value is a tie, rounded to the even mantissa.
MantissaLimit == 2 ^ 26
ToDouble(v) ==
  IF v[1] < MantissaLimit THEN [mant |-> v, exp |-> 0]
  ELSE LET q == THalf(v)
           odd == v[2] % 2 = 1
           qOdd == q[2] % 2 = 1
       IN [mant |-> IF odd /\ qOdd THEN TPlus(q, 1) ELSE q, exp |-> 1]

\* double -> T (return xf): the integral value mant * 2^exp
RECURSIVE FromDouble(_)
FromDouble(d) ==
  IF d.exp = 0 THEN d.mant
  ELSE TTwice(FromDouble([mant |-> d.mant, exp |-> d.exp - 1]))

\* The caller's update_func(n, x): deterministic, one of two kinds.
UpdateKinds == {"inc", "stepped"}
update_func(kind, n, v) ==
  IF kind = "inc" THEN TPlus(v, 1) ELSE TPlus(v, 2 * n + 1)

\* x_n by naive forward iteration from v0
RECURSIVE Naive(_, _, _)
Naive(kind, v0, n) ==
  IF n = 0 THEN v0 ELSE update_func(kind, n - 1, Naive(kind, v0, n - 1))

\* ------------------------------------------------------------------ std::map<size_t, T>
\* savedCps[k] as an rvalue: a missing key is inserted with T{} first
MapTouch(m, k) == IF k \in DOMAIN m THEN m ELSE m @@ (k :> TDefault)
MapErase(m, k) == [j \in (DOMAIN m) \ {k} |-> m[j]]
MapAssign(m, k, v) == [j \in (DOMAIN m) \cup {k} |-> IF j = k THEN v ELSE m[j]]
EmptyMap == [j \in {} |-> TDefault]

\* ------------------------------------------------------------------ StrategySpec
\* Any sequence of public operations on a strategy constructed with a
\* capacity in 0..MaxC, steps drawn from Steps.
Steps == 0..MaxStep
Strategy == [maxNumSlots_ |-> maxNumSlots_, slots_ |-> slots_, metrics_ |-> metrics_]

\* the record of the last public call: its name, then its arguments and
\* result where it has them
Called(op) == [op |-> op]

\* the driver's variables while no driver runs
DriverIdle ==
  /\ numSteps = 0 /\ storageSize = 0 /\ updateKind = "inc"
  /\ x0 = TDefault /\ x = TDefault /\ xf = ToDouble(TDefault) /\ i = 0
  /\ savedCps = EmptyMap /\ pc = "idle" /\ cbLog = <<>> /\ updateCalls = 0
  /\ result = TDefault

\* OnlineR2CheckpointStrategy(maxStates): maxNumSlots_(maxStates), no slots,
\* zero metrics
Constructed(cap) ==
  /\ maxNumSlots_ = cap
  /\ slots_ = <<>>
  /\ metrics_ = ZeroMetrics
  /\ maxStates = cap
  /\ persistentAdds = 0

StrategyInit ==
  /\ \E cap \in 0..MaxC : Constructed(cap)
  /\ call = Called("construct")
  /\ DriverIdle

Add(step, persistent) ==
  /\ pc = "idle"
  /\ metrics_.stores < MaxStores
  /\ persistent => persistentAdds < MaxPersistent
  /\ LET r == add_checkpoint_and_get_index_to_remove(Strategy, step, persistent)
     IN /\ maxNumSlots_' = r.S.maxNumSlots_
        /\ slots_' = r.S.slots_
        /\ metrics_' = r.S.metrics_
        /\ call' = [op |-> "add", step |-> step, persistent |-> persistent, ret |-> r.ret]
  /\ persistentAdds' = IF persistent THEN persistentAdds + 1 ELSE persistentAdds
  /\ UNCHANGED <<maxStates, driverVars>>

EraseStep(stepIndex) ==
  /\ pc = "idle"
  /\ LET r == erase_step(slots_, stepIndex)
     IN /\ slots_' = r.slots
        /\ call' = [op |-> "erase_step", step |-> stepIndex, ok |-> r.ret]
  /\ UNCHANGED <<maxNumSlots_, metrics_, maxStates, persistentAdds, driverVars>>

\* What last_checkpoint_step() can return: on an empty slots_ the assert is
\* compiled out under NDEBUG and back() of an empty vector is undefined, so
\* any value may come back.
LastCheckpointValues(slots) ==
  IF slots # <<>> THEN {last_checkpoint_step(slots)}
  ELSE Steps \cup {SizeMax}

LastCheckpointStep ==
  /\ pc = "idle"
  /\ \E v \in LastCheckpointValues(slots_) :
       call' = [op |-> "last_checkpoint_step", ret |-> v]
  /\ UNCHANGED <<strategyVars, maxStates, persistentAdds, driverVars>>

Reset ==
  /\ pc = "idle"
  /\ slots_' = reset(slots_)
  /\ call' = [op |-> "reset", removed |-> Len(slots_) - Len(reset(slots_))]
  /\ UNCHANGED <<maxNumSlots_, metrics_, maxStates, persistentAdds, driverVars>>

\* metrics_ = {}
ResetMetrics ==
  /\ pc = "idle"
  /\ metrics_' = ZeroMetrics
  /\ call' = Called("reset_metrics")
  /\ UNCHANGED <<maxNumSlots_, slots_, maxStates, persistentAdds, driverVars>>

RecordRecomputation ==
  /\ pc = "idle"
  /\ metrics_.recomputations < MaxRecorded
  /\ metrics_' = record_recomputation(metrics_)
  /\ call' = Called("record_recomputation")
  /\ UNCHANGED <<maxNumSlots_, slots_, maxStates, persistentAdds, driverVars>>

StrategyNext ==
  \/ \E step \in Steps, persistent \in BOOLEAN : Add(step, persistent)
  \/ \E stepIndex \in Steps : EraseStep(stepIndex)
  \/ LastCheckpointStep
  \/ Reset
  \/ ResetMetrics
  \/ RecordRecomputation

StrategySpec == StrategyInit /\ [][StrategyNext]_vars

\* ------------------------------------------------------------------ DriverSpec
\* advance_and_reverse_steps<T>(numSteps, storageSize, x, update_func,
\* reverse_callback, make_unique<OnlineR2CheckpointStrategy>(storageSize))
InitialStates == {TVal(0, 0), TVal(0, 5), TVal(MantissaLimit - 1, Radix - 2),
                  TVal(MantissaLimit, 1)}

DriverInit ==
  /\ numSteps \in 0..MaxN
  /\ storageSize \in 0..MaxC
  /\ updateKind \in UpdateKinds
  /\ x0 \in InitialStates
  /\ x = x0
  /\ xf = ToDouble(TDefault)
  /\ i = 0
  /\ savedCps = EmptyMap
  /\ pc = "start"
  /\ cbLog = <<>>
  /\ updateCalls = 0
  /\ result = TDefault
  /\ Constructed(storageSize)
  /\ call = Called("construct")

\* savedCps[0] = x; cps.add_checkpoint_and_get_index_to_remove(0, true); i = 0
DriverStart ==
  /\ pc = "start"
  /\ LET r == add_checkpoint_and_get_index_to_remove(Strategy, 0, TRUE)
     IN /\ maxNumSlots_' = r.S.maxNumSlots_
        /\ slots_' = r.S.slots_
        /\ metrics_' = r.S.metrics_
  /\ persistentAdds' = persistentAdds + 1
  /\ savedCps' = MapAssign(savedCps, 0, x)
  /\ i' = 0
  /\ pc' = "forward"
  /\ UNCHANGED <<maxStates, call, numSteps, storageSize, updateKind, x0, x, xf,
                 cbLog, updateCalls, result>>

\* The store after one "x = update_func(from, savedCps[from]); eraseStep =
\* add(from + 1, false); erase if valid; savedCps[from + 1] = x", and the
\* strategy after it: the body shared by the forward loop and the restore loop.
AdvanceFrom(from) ==
  LET read == MapTouch(savedCps, from)
      xNext == update_func(updateKind, from, read[from])
      r == add_checkpoint_and_get_index_to_remove(Strategy, UInc(from), FALSE)
      kept == IF valid_checkpoint_index(r.ret) THEN MapErase(read, r.ret) ELSE read
  IN [x |-> xNext, S |-> r.S, savedCps |-> MapAssign(kept, UInc(from), xNext)]

\* for (i = 0; i < numSteps; ++i) { ... }: one iteration
ForwardStep ==
  /\ pc = "forward"
  /\ i < numSteps
  /\ LET a == AdvanceFrom(i)
     IN /\ x' = a.x
        /\ maxNumSlots_' = a.S.maxNumSlots_
        /\ slots_' = a.S.slots_
        /\ metrics_' = a.S.metrics_
        /\ savedCps' = a.savedCps
  /\ updateCalls' = updateCalls + 1
  /\ i' = UInc(i)
  /\ UNCHANGED <<observerVars, numSteps, storageSize, updateKind, x0, xf, pc,
                 cbLog, result>>

\* the loop exits; double xf = x; i = numSteps
ForwardEnd ==
  /\ pc = "forward"
  /\ ~(i < numSteps)
  /\ xf' = ToDouble(x)
  /\ i' = numSteps
  /\ pc' = "reverse"
  /\ UNCHANGED <<strategyVars, observerVars, numSteps, storageSize, updateKind,
                 x0, x, savedCps, cbLog, updateCalls, result>>

\* Mutants of ReverseLoopCondition: "i > 0" stops before step 0; "i >= 0" is
\* always true of an unsigned i.
ReverseLoopConditionStrict == i > 0
ReverseLoopConditionAlways == i >= 0

\* for (i = numSteps; i + 1 > 0; --i)
ReverseLoopCondition == UInc(i) > 0

\* while (cps.last_checkpoint_step() < i) { ... }: one iteration (RESTORE)
RestoreStep ==
  /\ pc = "reverse"
  /\ ReverseLoopCondition
  /\ metrics_.recomputations < MaxRecomputations
  /\ \E seen \in LastCheckpointValues(slots_), lastCp \in LastCheckpointValues(slots_) :
       /\ seen < i
       /\ LET a == AdvanceFrom(lastCp)
          IN /\ x' = a.x
             /\ maxNumSlots_' = a.S.maxNumSlots_
             /\ slots_' = a.S.slots_
             /\ metrics_' = record_recomputation(a.S.metrics_)
             /\ savedCps' = a.savedCps
  /\ updateCalls' = updateCalls + 1
  /\ UNCHANGED <<observerVars, numSteps, storageSize, updateKind, x0, xf, i, pc,
                 cbLog, result>>

\* the while loop exits; reverse_callback(i, savedCps[i]); cps.erase_step(i);
\* savedCps.erase(i); --i
ReverseStep ==
  /\ pc = "reverse"
  /\ ReverseLoopCondition
  /\ \E seen \in LastCheckpointValues(slots_) : ~(seen < i)
  /\ LET read == MapTouch(savedCps, i)
     IN /\ cbLog' = Append(cbLog, <<i, read[i]>>)
        /\ savedCps' = MapErase(read, i)
  /\ slots_' = erase_step(slots_, i).slots
  /\ i' = UDec(i)
  /\ UNCHANGED <<maxNumSlots_, metrics_, observerVars, numSteps, storageSize,
                 updateKind, x0, x, xf, pc, updateCalls, result>>

\* the for loop exits; return xf
Return ==
  /\ pc = "reverse"
  /\ ~ReverseLoopCondition
  /\ result' = FromDouble(xf)
  /\ pc' = "done"
  /\ UNCHANGED <<strategyVars, observerVars, numSteps, storageSize, updateKind,
                 x0, x, xf, i, savedCps, cbLog, updateCalls>>

DriverNext ==
  \/ DriverStart
  \/ ForwardStep
  \/ ForwardEnd
  \/ RestoreStep
  \/ ReverseStep
  \/ Return

DriverSpec == DriverInit /\ [][DriverNext]_vars

\* The driver is one sequential thread: it takes its next step whenever it has one.
FairDriverSpec == DriverSpec /\ WF_vars(DriverNext)

\* ------------------------------------------------------------------ claims
\* The step indices reverse_callback has been called with are N, N-1, ... in
\* that order.
CallbackIndicesDescend ==
  \A k \in 1..Len(cbLog) : cbLog[k][1] = numSteps - k + 1

C2_CallbackStates ==
  /\ \A k \in 1..Len(cbLog) : cbLog[k][2] = Naive(updateKind, x0, cbLog[k][1])
  /\ \A k \in DOMAIN savedCps : savedCps[k] = Naive(updateKind, x0, k)

C2_Witness ==
  /\ pc = "done" /\ numSteps >= 3 /\ updateKind = "stepped" /\ x0 # TDefault
  /\ metrics_.evictions > 0 /\ metrics_.recomputations > 0
  /\ Len(cbLog) > numSteps

\* C3: with a capacity of at least 2 the driver never calls
\* last_checkpoint_step() on an empty strategy and every run reaches DONE: the
\* forward sweep, every RESTORE loop and the reverse sweep finish.
C3_Terminates ==
  /\ [](storageSize >= 2 /\ pc = "reverse" => slots_ # <<>>)
  /\ (pc = "start" /\ storageSize >= 2) ~> (pc = "done")

C3_Witness ==
  /\ pc = "done" /\ storageSize >= 2 /\ numSteps > storageSize
  /\ metrics_.recomputations > 0

\* C4 as stated: the value returned equals x_N, the state naive forward
\* iteration of update_func from x_0 gives after N steps.
C4_ReturnsFinalState ==
  pc = "done" => result = Naive(updateKind, x0, numSteps)

\* Some public add has just returned, having been called with (step, persistent).
AnyAdd == \E step \in Steps, persistent \in BOOLEAN : Add(step, persistent)

NonPersistentCount(slots) == Cardinality({k \in 1..Len(slots) : ~slots[k].persistent})
PersistentSteps(slots) == {slots[k].step : k \in {j \in 1..Len(slots) : slots[j].persistent}}

\* C5 as stated: for any capacity C >= 0 and any step s, immediately after
\* add_checkpoint_and_get_index_to_remove(s, persistent) returns,
\* contains_step(s) is true.
C5_AddedStepContained ==
  call.op = "add" => contains_step(slots_, call.step)

\* C6: after any sequence of add, erase_step and reset calls on a strategy
\* constructed with capacity C, size() <= capacity(), at most C slots are
\* non-persistent, and capacity() is C plus the number of persistent adds.
C6_SizeWithinCapacity ==
  /\ size(slots_) <= capacity(maxNumSlots_)
  /\ NonPersistentCount(slots_) <= maxStates
  /\ capacity(maxNumSlots_) = maxStates + persistentAdds

C6_Witness ==
  /\ call.op = "add" /\ valid_checkpoint_index(call.ret)
  /\ persistentAdds > 0 /\ maxStates > 0
  /\ size(slots_) = capacity(maxNumSlots_)
  /\ NonPersistentCount(slots_) = maxStates

\* C7 as stated: each add returns either the invalid sentinel or a step e that
\* was contained immediately before the call and is not contained immediately
\* after it, and a call evicts at most one slot.
C7_EvictedStepGone ==
  [][AnyAdd =>
       /\ \/ call'.ret = invalidCheckpointIndex
          \/ /\ contains_step(slots_, call'.ret)
             /\ ~contains_step(slots_', call'.ret)
       /\ Len(slots_') >= Len(slots_)]_vars

\* All stored slots have distinct step indices.
DistinctSteps ==
  \A j, k \in 1..Len(slots_) : j # k => slots_[j].step # slots_[k].step

\* C8 as stated: an add of a step that is already stored fails and leaves
\* slots, capacity and metrics unchanged, so the stored slots always have
\* distinct step indices.
C8_DuplicateAddRejected ==
  /\ [][\A step \in Steps, persistent \in BOOLEAN :
          (Add(step, persistent) /\ contains_step(slots_, step))
            => UNCHANGED strategyVars]_vars
  /\ []DistinctSteps

\* C9 as stated: erase_step(s) removes a slot iff a non-persistent slot with
\* step s is stored and returns true exactly then; when s is stored as a
\* persistent slot it returns false, s stays contained and slots, capacity and
\* metrics are unchanged; and no operation ever removes a persistent slot.
C9_EraseStepFrame ==
  /\ [][\A s \in Steps : EraseStep(s) =>
          /\ call'.ok = (\E k \in 1..Len(slots_) :
                           slots_[k].step = s /\ ~slots_[k].persistent)
          /\ call'.ok => Len(slots_') = Len(slots_) - 1
          /\ ~call'.ok => slots_' = slots_
          /\ s \in PersistentSteps(slots_) =>
               /\ ~call'.ok
               /\ contains_step(slots_', s)
               /\ UNCHANGED strategyVars]_vars
  /\ [][PersistentSteps(slots_) \subseteq PersistentSteps(slots_')]_vars

\* C10: reset() removes exactly the non-persistent slots: afterwards size()
\* is the number of persistent adds made so far, only persistent slots are
\* left, every persistent step is still contained, and capacity() and the
\* metrics are what they were before the reset.
C10_ResetKeepsPersistent ==
  [][Reset =>
       /\ size(slots_') = persistentAdds
       /\ NonPersistentCount(slots_') = 0
       /\ \A s \in PersistentSteps(slots_) : contains_step(slots_', s)
       /\ capacity(maxNumSlots_') = capacity(maxNumSlots_)
       /\ metrics_' = metrics_]_vars

C10_Witness ==
  /\ call.op = "reset" /\ call.removed > 0
  /\ persistentAdds > 0 /\ size(slots_) = persistentAdds
  /\ metrics_.evictions > 0

\* ------------------------------------------------------------------ SweepSpec
\* The forward sweep of advance_and_reverse_steps alone (it ends where the
\* reverse sweep would start), for longer runs and larger capacities than
\* DriverSpec covers.
SweepInit ==
  /\ numSteps \in 0..MaxSweepN
  /\ storageSize \in 0..MaxSweepC
  /\ updateKind \in UpdateKinds
  /\ x0 = TVal(0, 5)
  /\ x = x0
  /\ xf = ToDouble(TDefault)
  /\ i = 0
  /\ savedCps = EmptyMap
  /\ pc = "start"
  /\ cbLog = <<>>
  /\ updateCalls = 0
  /\ result = TDefault
  /\ Constructed(storageSize)
  /\ call = Called("construct")

SweepNext ==
  \/ DriverStart
  \/ ForwardStep
  \/ ForwardEnd

SweepSpec == SweepInit /\ [][SweepNext]_vars

\* The forward sweep has just ended: nothing reversed or recomputed yet.
ForwardSweepDone ==
  pc = "reverse" /\ i = numSteps /\ cbLog = <<>> /\ metrics_.recomputations = 0

\* the greatest distance between two consecutive stored steps (0 with fewer
\* than two slots)
MaxGap(slots) ==
  IF Len(slots) < 2 THEN 0
  ELSE LET gaps == {slots[k + 1].step - slots[k].step : k \in 1..(Len(slots) - 1)}
       IN CHOOSE g \in gaps : \A h \in gaps : h <= g

CeilDiv(a, b) == (a + b - 1) \div b

\* C11: after the forward sweep of N >= 1 steps with capacity C >= 1 (step 0
\* persistent), the greatest gap between consecutive retained steps is at most
\* ceil(2N / C).
C11_ForwardGapBound ==
  (ForwardSweepDone /\ numSteps >= 1 /\ storageSize >= 1)
    => MaxGap(slots_) <= CeilDiv(2 * numSteps, storageSize)

C11_Witness ==
  /\ ForwardSweepDone /\ storageSize = 3 /\ numSteps = 10
  /\ metrics_.evictions > 0
  /\ MaxGap(slots_) > 1

\* C12 as stated: at every point of a run, for any N and C, the step->state
\* store holds at most C + P + 1 states, P = 1 being the driver's one
\* persistent registration.
C12_StoreBound ==
  Cardinality(DOMAIN savedCps) <= storageSize + 1 + 1

\* C13: no operation but reset_metrics lowers a metrics counter,
\* reset_metrics sets all three to zero, and record_recomputation raises
\* recomputations by exactly one and changes nothing else.
C13_MetricsMonotone ==
  [][/\ ~ResetMetrics =>
          /\ metrics_'.stores >= metrics_.stores
          /\ metrics_'.evictions >= metrics_.evictions
          /\ metrics_'.recomputations >= metrics_.recomputations
     /\ ResetMetrics => metrics_' = ZeroMetrics
     /\ RecordRecomputation =>
          /\ metrics_'.recomputations = metrics_.recomputations + 1
          /\ metrics_'.stores = metrics_.stores
          /\ metrics_'.evictions = metrics_.evictions
          /\ slots_' = slots_
          /\ maxNumSlots_' = maxNumSlots_]_vars

C13_Witness ==
  /\ call.op = "record_recomputation"
  /\ metrics_.recomputations = 1
  /\ metrics_.stores > 0 /\ metrics_.evictions > 0

\* The claim's merged gap of the slot at 1-based position k (the claim's
\* i = k - 1): right_i - left_i in unsigned arithmetic.
ClaimedGap(slots, k, newStep) ==
  LET left == IF k = 1 THEN 0 ELSE slots[k - 1].step
      right == IF k = Len(slots) THEN newStep ELSE slots[k + 1].step
  IN (right - left) % SizeMod

\* The positions the claim allows to be evicted: non-persistent, of least
\* merged gap, and the lowest such position.
ClaimedVictims(slots, newStep) ==
  {k \in 1..Len(slots) :
     /\ ~slots[k].persistent
     /\ \A j \in 1..Len(slots) :
          ~slots[j].persistent =>
            /\ ClaimedGap(slots, k, newStep) <= ClaimedGap(slots, j, newStep)
            /\ (ClaimedGap(slots, j, newStep) = ClaimedGap(slots, k, newStep) => k <= j)}

\* C14: whenever a non-persistent add(newStep) evicts, the evicted slot is the
\* non-persistent slot of least merged gap (unsigned), the lowest position
\* winning ties, also for a newStep below the greatest stored step.
C14_EvictsLeastMergedGap ==
  [][\A newStep \in Steps :
       (Add(newStep, FALSE) /\ valid_checkpoint_index(call'.ret)) =>
         \E k \in ClaimedVictims(slots_, newStep) :
           /\ slots_[k].step = call'.ret
           /\ slots_' = InsertSorted(RemoveAt(slots_, k), Slot(newStep, FALSE))]_vars

C14_Witness ==
  /\ call.op = "add" /\ ~call.persistent /\ valid_checkpoint_index(call.ret)
  /\ Len(slots_) >= 3
  /\ call.step < slots_[Len(slots_)].step
  /\ call.ret < call.step

\* C15 as stated, in its finite-run part: for every i and every C, each
\* RESTORE iteration raises last_checkpoint_step() by exactly one and records
\* exactly one recomputation, and the loop is left with
\* last_checkpoint_step() = i.
C15_RestoreAdvances ==
  [][/\ RestoreStep =>
          /\ last_checkpoint_step(slots_') = last_checkpoint_step(slots_) + 1
          /\ metrics_'.recomputations = metrics_.recomputations + 1
     /\ ReverseStep => last_checkpoint_step(slots_) = i]_vars

\* C16 as stated: for C >= 1, after any sequence of adds, erase_step and
\* reset, a non-persistent add into a full strategy finds an eviction
\* candidate, so the new slot is never dropped.
C16_DropUnreachable ==
  [][\A newStep \in Steps :
       (/\ Add(newStep, FALSE)
        /\ maxStates >= 1
        /\ ~HasSpace(slots_, maxNumSlots_)) =>
         /\ find_eviction_candidate(slots_, newStep) <= Len(slots_)
         /\ valid_checkpoint_index(call'.ret)
         /\ Len(slots_') = Len(slots_)]_vars

\* C17: an add evicts only when it is non-persistent and size() = capacity()
\* before the call; a persistent add raises capacity() by one, inserts its
\* slot and returns the sentinel; an add while size() < capacity() returns
\* the sentinel and raises size() by one.
C17_EvictsOnlyWhenFull ==
  [][\A newStep \in Steps, persistent \in BOOLEAN :
       Add(newStep, persistent) =>
         /\ valid_checkpoint_index(call'.ret) =>
              (~persistent /\ size(slots_) = capacity(maxNumSlots_))
         /\ persistent =>
              /\ capacity(maxNumSlots_') = capacity(maxNumSlots_) + 1
              /\ size(slots_') = size(slots_) + 1
              /\ \E k \in 1..Len(slots_') :
                   /\ slots_'[k] = Slot(newStep, TRUE)
                   /\ RemoveAt(slots_', k) = slots_
              /\ call'.ret = invalidCheckpointIndex
         /\ size(slots_) < capacity(maxNumSlots_) =>
              /\ call'.ret = invalidCheckpointIndex
              /\ size(slots_') = size(slots_) + 1]_vars

C17_Witness ==
  /\ call.op = "add" /\ call.persistent
  /\ call.ret = invalidCheckpointIndex
  /\ maxStates >= 1
  /\ size(slots_) = capacity(maxNumSlots_)
  /\ metrics_.evictions > 0

\* The public API run from a fresh strategy, together with the driver's
\* forward sweep: the two settings in which slots_ is filled.
ApiSweepInit == StrategyInit \/ SweepInit

ApiSweepNext == StrategyNext \/ SweepNext

ApiSweepSpec == ApiSweepInit /\ [][ApiSweepNext]_vars

StepsOf(slots) == {slots[k].step : k \in 1..Len(slots)}

Sorted(slots) ==
  \A j, k \in 1..Len(slots) : j < k => slots[j].step <= slots[k].step

\* C18: whenever the strategy is non-empty, slots_ is sorted by step and
\* last_checkpoint_step() returns the greatest stored step; after the driver's
\* forward sweep of N steps with C >= 1, last_checkpoint_step() = N.
C18_SortedLastIsGreatest ==
  /\ slots_ # <<>> =>
       /\ Sorted(slots_)
       /\ \A s \in StepsOf(slots_) : s <= last_checkpoint_step(slots_)
       /\ last_checkpoint_step(slots_) \in StepsOf(slots_)
       /\ call.op = "last_checkpoint_step" =>
            \A s \in StepsOf(slots_) : s <= call.ret
  /\ (ForwardSweepDone /\ storageSize >= 1) =>
       last_checkpoint_step(slots_) = numSteps

C18_Witness ==
  /\ call.op = "last_checkpoint_step"
  /\ Len(slots_) >= 3
  /\ call.ret = MaxStep
  /\ metrics_.evictions > 0

\* C19: when N <= C a full run evicts nothing and recomputes nothing, and
\* update is called exactly N times.
C19_NoEvictionWhenFits ==
  (pc = "done" /\ numSteps <= storageSize) =>
     /\ metrics_.evictions = 0
     /\ metrics_.recomputations = 0
     /\ updateCalls = numSteps

C19_Witness ==
  /\ pc = "done"
  /\ numSteps = storageSize
  /\ numSteps >= 2
  /\ metrics_.stores = numSteps + 1

\* C20: in a run with C >= 1, after each forward iteration, each RESTORE
\* iteration and each reverse iteration with i >= 1, the keys of the store are
\* exactly the steps held by the strategy; so the strategy is not empty when
\* last_checkpoint_step() is called, and the store entries read (savedCps[i] of
\* the forward loop, savedCps[lastCp] of RESTORE, savedCps[i] of the reverse
\* callback) exist.
C20_StoreMatchesStrategy ==
  (storageSize >= 1 /\ pc \in {"forward", "reverse"} /\ ReverseLoopCondition) =>
     /\ DOMAIN savedCps = StepsOf(slots_)
     /\ slots_ # <<>>
     /\ (pc = "forward" /\ i < numSteps) => i \in DOMAIN savedCps
     /\ pc = "reverse" =>
          /\ last_checkpoint_step(slots_) \in DOMAIN savedCps
          /\ ~(last_checkpoint_step(slots_) < i) => i \in DOMAIN savedCps

C20_Witness ==
  /\ pc = "reverse"
  /\ storageSize >= 1
  /\ i >= 1 /\ i < numSteps
  /\ metrics_.evictions > 0
  /\ metrics_.recomputations > 0
  /\ Len(slots_) >= 2

====
